---- MODULE Spec2Model ----
(***************************************************************************)
(* Push-notification gating of Tracearr: the Redis-backed rate limiter     *)
(* (PushRateLimiter, RATE_LIMIT_SCRIPT) and the quiet-hours service of     *)
(* apps/server/src/services/pushRateLimiter.ts.                            *)
(*                                                                         *)
(* The Redis server is modelled as a key-value store whose commands are    *)
(* atomic; an EVAL of the Lua script is one atomic step.  Time is counted  *)
(* in milliseconds, the unit in which Redis keeps expiries.                *)
(***************************************************************************)
EXTENDS Integers, Sequences, FiniteSets, TLC

\* ------------------------------------------------------------------ bounds
NumCallers == 2
BurstCallers == 3
GateCallers == 2
GateCalls == 2
StatusCallers == 2
StatusCalls == 3
FullCallers == 2
FullCalls == 3
PrefsCalls == 3
ConcurrentCallers == 2
ConcurrentCalls == 2
SnapshotCallers == 2
SnapshotCalls == 3
InstanceCalls == 2
MaxInits == 3
MaxCalls == 3
SlidingCalls == 4
ScenarioCalls == 6
MaxElapse == 3
MaxCapMinute == 2
MaxCapHour == 2

\* ------------------------------------------------------- program constants
MinuteWindow == 60
HourWindow == 3600
MsPerSecond == 1000
TtlNoKey == -2
TtlNoExpiry == -1

Sessions == {"s1", "s2"}

\* Amounts of time (ms) that may pass between two store commands.
Durations == {400, 59600, 3540000}

Max(a, b) == IF a >= b THEN a ELSE b

\* ------------------------------------------------------------------- keys
MinuteKeyShared(s) == <<"minute", "s1">>
MinuteKey(s) == <<"minute", s>>
HourKey(s) == <<"hour", s>>
Keys == {MinuteKey(s) : s \in Sessions} \cup {HourKey(s) : s \in Sessions}
WindowOf(key) == IF key[1] = "minute" THEN MinuteWindow ELSE HourWindow

\* ------------------------------------------------------- the Redis store
\* A key is absent, or holds an integer and a time to live in ms
\* (TtlNoExpiry when it has no expiry).
Absent == [present |-> FALSE, val |-> 0, pttl |-> TtlNoKey]
EmptyStore == [k \in Keys |-> Absent]

\* GET key: <<>> (nil) without the key, else <<value>>.
GET(st, key) == IF st[key].present THEN <<st[key].val>> ELSE <<>>

\* tonumber(GET or '0') of the script and parseInt(v ?? '0', 10) of getStatus.
NumberOrZero(got) == IF got = <<>> THEN 0 ELSE got[1]

\* TTL key: -2 without the key, -1 without expiry, else the remaining time
\* rounded to the nearest second (so 0 while less than half a second is left).
TTL(st, key) ==
  IF ~st[key].present THEN TtlNoKey
  ELSE IF st[key].pttl = TtlNoExpiry THEN TtlNoExpiry
  ELSE (st[key].pttl + 500) \div MsPerSecond

\* INCR key: an absent key is created at 1 with no expiry.
INCR(st, key) ==
  IF st[key].present
    THEN [st EXCEPT ![key].val = @ + 1]
    ELSE [st EXCEPT ![key] = [present |-> TRUE, val |-> 1, pttl |-> TtlNoExpiry]]

\* EXPIRE key seconds.
EXPIREIgnored(st, key, seconds) == st
EXPIRE(st, key, seconds) ==
  IF st[key].present THEN [st EXCEPT ![key].pttl = seconds * MsPerSecond] ELSE st

\* DEL key1 key2: both keys removed in one command.
DELFirstKeyOnly(st, key1, key2) == [st EXCEPT ![key1] = Absent]
DELOneByOne(st, key1, key2) ==
  IF st[key1].present THEN [st EXCEPT ![key1] = Absent] ELSE [st EXCEPT ![key2] = Absent]
DEL(st, key1, key2) == [st EXCEPT ![key1] = Absent, ![key2] = Absent]

\* The store after d ms: keys whose time to live has run out are gone.
Expired(e, d) == e.present /\ e.pttl # TtlNoExpiry /\ e.pttl <= d
AfterElapse(st, d) ==
  [k \in Keys |->
     IF ~st[k].present \/ st[k].pttl = TtlNoExpiry THEN st[k]
     ELSE IF Expired(st[k], d) THEN Absent
     ELSE [st[k] EXCEPT !.pttl = @ - d]]

\* ------------------------------------------------------ RATE_LIMIT_SCRIPT
MinuteLimitReachedStrict(minuteCount, maxPerMinute) == minuteCount > maxPerMinute
MinuteLimitReachedPositiveCap(minuteCount, maxPerMinute) ==
  maxPerMinute > 0 /\ minuteCount >= maxPerMinute
MinuteLimitReached(minuteCount, maxPerMinute) == minuteCount >= maxPerMinute

HourLimitReachedStrict(hourCount, maxPerHour) == hourCount > maxPerHour
HourLimitReached(hourCount, maxPerHour) == hourCount >= maxPerHour

\* The two checks in the script's order: 1 = minute exceeded, 2 = hour
\* exceeded, 0 = neither.
WhichLimitHourFirst(minuteCount, hourCount, maxPerMinute, maxPerHour) ==
  IF HourLimitReached(hourCount, maxPerHour) THEN 2
  ELSE IF MinuteLimitReached(minuteCount, maxPerMinute) THEN 1
  ELSE 0
WhichLimit(minuteCount, hourCount, maxPerMinute, maxPerHour) ==
  IF MinuteLimitReached(minuteCount, maxPerMinute) THEN 1
  ELSE IF HourLimitReached(hourCount, maxPerHour) THEN 2
  ELSE 0

\* A denial returns before any write command.
StoreOnDenyIncrFirst(st, minuteKey, hourKey) == INCR(st, minuteKey)
StoreOnDeny(st, minuteKey, hourKey) == st

\* "if ttl < 0": the key was absent (-2) or had no expiry (-1) when read.
NeedsExpireOrZero(ttl) == ttl <= 0
NeedsExpireOnlyNoExpiry(ttl) == ttl = TtlNoExpiry
NeedsExpire(ttl) == ttl < 0

\* The minute block: INCR, then EXPIRE 60 if the key had no time to live.
IncrMinuteTwice(st, minuteKey, minuteTTL) ==
  LET st1 == INCR(INCR(st, minuteKey), minuteKey)
  IN  IF NeedsExpire(minuteTTL) THEN EXPIRE(st1, minuteKey, MinuteWindow) ELSE st1
IncrMinute(st, minuteKey, minuteTTL) ==
  LET st1 == INCR(st, minuteKey)
  IN  IF NeedsExpire(minuteTTL) THEN EXPIRE(st1, minuteKey, MinuteWindow) ELSE st1

\* The hour block: INCR, then EXPIRE 3600 if the key had no time to live.
IncrHourMinuteWindow(st, hourKey, hourTTL) ==
  LET st1 == INCR(st, hourKey)
  IN  IF NeedsExpire(hourTTL) THEN EXPIRE(st1, hourKey, MinuteWindow) ELSE st1
IncrHourOnlyNew(st, hourKey, hourTTL) ==
  IF NeedsExpire(hourTTL) THEN EXPIRE(INCR(st, hourKey), hourKey, HourWindow) ELSE st
IncrHour(st, hourKey, hourTTL) ==
  LET st1 == INCR(st, hourKey)
  IN  IF NeedsExpire(hourTTL) THEN EXPIRE(st1, hourKey, HourWindow) ELSE st1

\* The time to live the script reports after its increment.
TtlAfterIncr(ttl, window) == IF NeedsExpire(ttl) THEN window ELSE ttl

\* The count the script returns for an incremented counter (INCR's reply).
IncrReplyStale(st, key) == st[key].val - 1
IncrReply(st, key) == st[key].val

\* The whole script: the store it leaves and the six values it returns.
RateLimitScript(st, minuteKey, hourKey, maxPerMinute, maxPerHour) ==
  LET minuteCount == NumberOrZero(GET(st, minuteKey))
      hourCount == NumberOrZero(GET(st, hourKey))
      minuteTTL == TTL(st, minuteKey)
      hourTTL == TTL(st, hourKey)
      exceeded == WhichLimit(minuteCount, hourCount, maxPerMinute, maxPerHour)
  IN  IF exceeded # 0
        THEN [store |-> StoreOnDeny(st, minuteKey, hourKey),
              reply |-> <<0, minuteCount, hourCount, minuteTTL, hourTTL, exceeded>>]
      ELSE
        LET st1 == IncrMinute(st, minuteKey, minuteTTL)
            st2 == IncrHour(st1, hourKey, hourTTL)
        IN  [store |-> st2,
             reply |-> <<1, IncrReply(st1, minuteKey), IncrReply(st2, hourKey),
                         TtlAfterIncr(minuteTTL, MinuteWindow),
                         TtlAfterIncr(hourTTL, HourWindow), 0>>]

\* ------------------------------------------- PushRateLimiter.checkAndRecord
RemainingUnclamped(cap, count) == cap - count
Remaining(cap, count) == Max(0, cap - count)
ResetIn(ttl, window) == IF ttl > 0 THEN ttl ELSE window

\* In a denial the exceeded dimension is reported as 0.
DeniedRemainingZeroed(exceededLimit, dimension, remaining) == 0
DeniedRemaining(exceededLimit, dimension, remaining) ==
  IF exceededLimit = dimension THEN 0 ELSE remaining

\* The RateLimitResult built from the script's reply.
CheckAndRecordResultOneObject(p, reply) ==
  [allowed |-> reply[1] # 0,
   remainingMinute |-> Remaining(p.maxPerMinute, reply[2]),
   remainingHour |-> Remaining(p.maxPerHour, reply[3]),
   resetMinuteIn |-> ResetIn(reply[4], MinuteWindow),
   resetHourIn |-> ResetIn(reply[5], HourWindow),
   exceededLimit |-> IF reply[6] = 1 THEN "minute" ELSE "hour"]
CheckAndRecordResult(p, reply) ==
  LET allowed == reply[1]
      remainingMinute == Remaining(p.maxPerMinute, reply[2])
      remainingHour == Remaining(p.maxPerHour, reply[3])
      resetMinuteIn == ResetIn(reply[4], MinuteWindow)
      resetHourIn == ResetIn(reply[5], HourWindow)
      exceededLimit == reply[6]
  IN  IF allowed = 0
        THEN [allowed |-> FALSE,
              remainingMinute |-> DeniedRemaining(exceededLimit, 1, remainingMinute),
              remainingHour |-> DeniedRemaining(exceededLimit, 2, remainingHour),
              resetMinuteIn |-> resetMinuteIn,
              resetHourIn |-> resetHourIn,
              exceededLimit |-> IF exceededLimit = 1 THEN "minute" ELSE "hour"]
        ELSE [allowed |-> TRUE,
              remainingMinute |-> remainingMinute,
              remainingHour |-> remainingHour,
              resetMinuteIn |-> resetMinuteIn,
              resetHourIn |-> resetHourIn]

\* -------------------------------------------------------- QuietHoursService
\* Strings the code takes apart are sequences of one-character strings; a
\* nullable string is [null |-> TRUE] or [null |-> FALSE, text |-> chars].
Null == [null |-> TRUE]
Str(chars) == [null |-> FALSE, text |-> chars]

\* JavaScript's  !value  for a nullable string: null and "" are falsy.
Falsy(v) == v.null \/ v.text = <<>>

\* JavaScript numbers as far as the code needs them: an integer or NaN.
\* (undefined, the missing element of a destructured array, turns every sum
\* and product into NaN and is carried as NaN.)
NaN == [nan |-> TRUE, n |-> 0]
Num(n) == [nan |-> FALSE, n |-> n]
JsMul(a, b) == IF a.nan \/ b.nan THEN NaN ELSE Num(a.n * b.n)
JsAdd(a, b) == IF a.nan \/ b.nan THEN NaN ELSE Num(a.n + b.n)
JsGt(a, b) == ~a.nan /\ ~b.nan /\ a.n > b.n
JsGe(a, b) == ~a.nan /\ ~b.nan /\ a.n >= b.n
JsLe(a, b) == ~a.nan /\ ~b.nan /\ a.n <= b.n

DigitChars == <<"0", "1", "2", "3", "4", "5", "6", "7", "8", "9">>
IsDigit(ch) == \E i \in 1..10 : DigitChars[i] = ch
DigitValue(ch) == (CHOOSE i \in 1..10 : DigitChars[i] = ch) - 1

\* String.prototype.split(':').
RECURSIVE SplitFrom(_, _, _)
SplitFrom(chars, i, field) ==
  IF i > Len(chars) THEN <<field>>
  ELSE IF chars[i] = ":" THEN <<field>> \o SplitFrom(chars, i + 1, <<>>)
  ELSE SplitFrom(chars, i + 1, Append(field, chars[i]))
Split(chars) == SplitFrom(chars, 1, <<>>)

\* Number(field) for fields made of digits and letters: "" is 0, a run of
\* digits is its decimal value, anything else is NaN.
RECURSIVE DecimalValue(_, _)
DecimalValue(field, acc) ==
  IF field = <<>> THEN acc
  ELSE DecimalValue(Tail(field), 10 * acc + DigitValue(Head(field)))
JsNumber(field) ==
  IF \A i \in 1..Len(field) : IsDigit(field[i])
    THEN Num(DecimalValue(field, 0))
    ELSE NaN

\* const [hour, minute] = text.split(':').map(Number);  hour * 60 + minute
Element(fields, i) == IF i <= Len(fields) THEN JsNumber(fields[i]) ELSE NaN
MinutesOf(chars) ==
  LET fields == Split(chars)
  IN  JsAdd(JsMul(Element(fields, 1), Num(60)), Element(fields, 2))

\* The time zones of the runtime, with their offsets from UTC in minutes.
TimeZones == {"UTC", "America/New_York", "Asia/Kolkata"}
UtcOffset(tz) ==
  CASE tz = "America/New_York" -> -300
    [] tz = "Asia/Kolkata" -> 330
    [] OTHER -> 0

\* timeZone: prefs.quietHoursTimezone || 'UTC', and UTC again when the
\* formatter rejects the zone.
EffectiveTimeZoneServer(tz) ==
  IF tz = "" THEN "UTC"
  ELSE IF tz \in TimeZones THEN tz
  ELSE "America/New_York"
EffectiveTimeZone(tz) ==
  IF tz = "" THEN "UTC"
  ELSE IF tz \in TimeZones THEN tz
  ELSE "UTC"

\* Intl.DateTimeFormat('en-US', {hour: '2-digit', minute: '2-digit',
\* hour12: false, timeZone}).format(now): "HH:MM".  Whether the hour after
\* midnight is written 00 or 24 depends on the runtime's ICU.
TwoDigits(n) == <<DigitChars[(n \div 10) + 1], DigitChars[(n % 10) + 1]>>
FormatTime(now, tz, midnightIs24) ==
  LET localMinutes == (now + UtcOffset(tz)) % (24 * 60)
      hour == localMinutes \div 60
      minute == localMinutes % 60
  IN  TwoDigits(IF hour = 0 /\ midnightIs24 THEN 24 ELSE hour)
        \o <<":">> \o TwoDigits(minute)

\* The guard of isQuietTime: quiet hours switched off, or no start, or no end.
QuietHoursOffUnlessEnabled(q) == Falsy(q.quietHoursStart) \/ Falsy(q.quietHoursEnd)
QuietHoursOff(q) ==
  ~q.quietHoursEnabled \/ Falsy(q.quietHoursStart) \/ Falsy(q.quietHoursEnd)

\* isQuietTime at the instant `now` (minutes since midnight UTC).
IsQuietTime(q, now, midnightIs24) ==
  IF QuietHoursOff(q)
    THEN FALSE
  ELSE
    LET userTime == FormatTime(now, EffectiveTimeZone(q.quietHoursTimezone), midnightIs24)
        currentMinutes == MinutesOf(userTime)
        startMinutes == MinutesOf(q.quietHoursStart.text)
        endMinutes == MinutesOf(q.quietHoursEnd.text)
    IN  IF JsGt(startMinutes, endMinutes)
          THEN JsGe(currentMinutes, startMinutes) \/ JsLe(currentMinutes, endMinutes)
          ELSE JsGe(currentMinutes, startMinutes) /\ JsLe(currentMinutes, endMinutes)

ShouldSendAnyOverride(q, severity, now, midnightIs24) ==
  IF ~IsQuietTime(q, now, midnightIs24) THEN TRUE
  ELSE q.quietHoursOverrideCritical
ShouldSend(q, severity, now, midnightIs24) ==
  IF ~IsQuietTime(q, now, midnightIs24) THEN TRUE
  ELSE IF q.quietHoursOverrideCritical /\ severity = "high" THEN TRUE
  ELSE FALSE

ShouldSendEventAllLow(q, eventType, now, midnightIs24) ==
  ShouldSend(q, "low", now, midnightIs24)
ShouldSendEvent(q, eventType, now, midnightIs24) ==
  IF eventType = "server_down"
    THEN ShouldSend(q, "high", now, midnightIs24)
    ELSE ShouldSend(q, "low", now, midnightIs24)

\* ------------------------------------------------------- Gate (composition)
\* The decision built from a checkAndRecord result, and from a status when
\* quiet hours suppress the notification.
DecisionFromCheck(res) ==
  IF res.allowed
    THEN [allowed |-> TRUE,
          remainingMinute |-> res.remainingMinute, remainingHour |-> res.remainingHour,
          resetMinuteIn |-> res.resetMinuteIn, resetHourIn |-> res.resetHourIn]
    ELSE [allowed |-> FALSE, reason |-> "rate_limited",
          remainingMinute |-> res.remainingMinute, remainingHour |-> res.remainingHour,
          resetMinuteIn |-> res.resetMinuteIn, resetHourIn |-> res.resetHourIn]

DecisionFromStatus(status) ==
  [allowed |-> FALSE, reason |-> "quiet_hours",
   remainingMinute |-> status.remainingMinute, remainingHour |-> status.remainingHour,
   resetMinuteIn |-> status.resetMinuteIn, resetHourIn |-> status.resetHourIn]

\* ------------------------------------------------------------------ state
VARIABLES
  store,     \* the Redis keys of the rate limiter
  prefs,     \* the RateLimitPrefs the callers pass
  pc,        \* each caller's position: "idle", or inside an operation
  arg,       \* the arguments of the operation a caller is in
  last,      \* what the operation completed by the last step returned, and to whom
  calls,     \* operations started so far
  budget,    \* how many operations may be started
  elapses,   \* time steps taken so far
  age,       \* per key: ms since the counter was created (0 when absent)
  obs,       \* per key: what the allowed calls of the current window saw
  tally,     \* per session: results of checkAndRecord since time last moved
  qh,        \* the quiet-hours call under way: its inputs and what it returned
  rateLimiterInstance  \* the module-level instance, or none

vars == <<store, prefs, pc, arg, last, calls, budget, elapses, age, obs, tally, qh,
          rateLimiterInstance>>

Callers == DOMAIN pc

NoArg == [session |-> "none"]
NoResult == [op |-> "none"]
NoDecision == [none |-> TRUE]
Direct == [via |-> FALSE]
ViaGate(send) == [via |-> TRUE, send |-> send]
NoTally == [allowed |-> 0, deniedMinute |-> 0, deniedHour |-> 0]
NoQuiet == [op |-> "none"]

\* let rateLimiterInstance: PushRateLimiter | null = null
NoInstance == [null |-> TRUE]

PrefsChoices ==
  {[maxPerMinute |-> m, maxPerHour |-> h] : m \in 0..MaxCapMinute, h \in 0..MaxCapHour}

InitLimiter(callers, maxCalls) ==
  /\ store = EmptyStore
  /\ pc = [c \in 1..callers |-> "idle"]
  /\ arg = [c \in 1..callers |-> NoArg]
  /\ budget = maxCalls
  /\ last = NoResult
  /\ calls = 0
  /\ elapses = 0
  /\ age = [k \in Keys |-> 0]
  /\ obs = [k \in Keys |-> <<>>]
  /\ tally = [s \in Sessions |-> NoTally]
  /\ rateLimiterInstance = NoInstance

InitCommon(callers, maxCalls) ==
  /\ InitLimiter(callers, maxCalls)
  /\ qh = NoQuiet

Init ==
  /\ InitCommon(NumCallers, MaxCalls)
  /\ prefs \in PrefsChoices

\* What an allowed call adds to the record of a window: the count it saw, the
\* remaining budget it returned and the age of the window at that moment.
ObsAfter(key, count, remaining) ==
  LET entry == [count |-> count, remaining |-> remaining, at |-> age[key]]
  IN  IF store[key].present THEN Append(obs[key], entry) ELSE <<entry>>

TallyAfter(t, res) ==
  IF res.allowed THEN [t EXCEPT !.allowed = @ + 1]
  ELSE IF res.exceededLimit = "minute" THEN [t EXCEPT !.deniedMinute = @ + 1]
  ELSE [t EXCEPT !.deniedHour = @ + 1]

\* checkAndRecord, up to the await: the EVAL is sent with the caller's prefs.
CallCheckAndRecord(c, s) ==
  /\ pc[c] = "idle"
  /\ calls < budget
  /\ pc' = [pc EXCEPT ![c] = "eval"]
  /\ arg' = [arg EXCEPT ![c] = [session |-> s, prefs |-> prefs, gate |-> Direct]]
  /\ calls' = calls + 1
  /\ last' = NoResult
  /\ UNCHANGED <<store, prefs, budget, elapses, age, obs, tally, qh, rateLimiterInstance>>

\* checkAndRecord, from the await on: Redis runs the script atomically and
\* the caller builds its result from the reply.
EvalCore(c) ==
  /\ pc[c] = "eval"
  /\ LET s == arg[c].session
         p == arg[c].prefs
         out == RateLimitScript(store, MinuteKey(s), HourKey(s),
                                p.maxPerMinute, p.maxPerHour)
         res == CheckAndRecordResult(p, out.reply)
     IN  /\ store' = out.store
         /\ last' = [op |-> "checkAndRecord", caller |-> c, session |-> s,
                     prefs |-> p, reply |-> out.reply, value |-> res,
                     gate |-> arg[c].gate,
                     decision |-> IF arg[c].gate.via THEN DecisionFromCheck(res)
                                  ELSE NoDecision]
         /\ obs' = IF res.allowed
                     THEN [obs EXCEPT
                             ![MinuteKey(s)] = ObsAfter(MinuteKey(s), out.reply[2],
                                                        res.remainingMinute),
                             ![HourKey(s)] = ObsAfter(HourKey(s), out.reply[3],
                                                      res.remainingHour)]
                     ELSE obs
  /\ pc' = [pc EXCEPT ![c] = "idle"]
  /\ arg' = [arg EXCEPT ![c] = NoArg]
  /\ UNCHANGED <<prefs, calls, budget, elapses, age, qh, rateLimiterInstance>>

\* The same, with the tally of the session's results kept.
EvalScript(c) ==
  /\ EvalCore(c)
  /\ tally' = [tally EXCEPT ![last'.session] = TallyAfter(@, last'.value)]

\* getStatus, up to the first await: four commands are queued on the
\* connection in the order GET minute, GET hour, TTL minute, TTL hour.
CallGetStatus(c, s) ==
  /\ pc[c] = "idle"
  /\ calls < budget
  /\ pc' = [pc EXCEPT ![c] = "status"]
  /\ arg' = [arg EXCEPT ![c] = [session |-> s, prefs |-> prefs, reads |-> <<>>,
                                gate |-> Direct]]
  /\ calls' = calls + 1
  /\ last' = NoResult
  /\ UNCHANGED <<store, prefs, budget, elapses, age, obs, tally, qh, rateLimiterInstance>>

\* GET and TTL are read-only: the store after the n-th command of getStatus.
StatusEffectTouch(st, s, n) ==
  IF n = 3 THEN EXPIRE(st, MinuteKey(s), MinuteWindow) ELSE st
StatusEffectIncr(st, s, n) == IF n = 1 THEN INCR(st, MinuteKey(s)) ELSE st
StatusEffect(st, s, n) == st

\* The reply of the n-th queued command of getStatus.
StatusCommandOneAhead(st, s, n) ==
  CASE n = 1 -> NumberOrZero(GET(st, MinuteKey(s))) + 1
    [] n = 2 -> NumberOrZero(GET(st, HourKey(s))) + 1
    [] n = 3 -> TTL(st, MinuteKey(s))
    [] OTHER -> TTL(st, HourKey(s))
StatusCommand(st, s, n) ==
  CASE n = 1 -> NumberOrZero(GET(st, MinuteKey(s)))
    [] n = 2 -> NumberOrZero(GET(st, HourKey(s)))
    [] n = 3 -> TTL(st, MinuteKey(s))
    [] OTHER -> TTL(st, HourKey(s))

\* The status object built from the four replies.
StatusResultOffByOne(p, reads) ==
  [remainingMinute |-> Remaining(p.maxPerMinute, reads[1] + 1),
   remainingHour |-> Remaining(p.maxPerHour, reads[2] + 1),
   resetMinuteIn |-> ResetIn(reads[3], MinuteWindow),
   resetHourIn |-> ResetIn(reads[4], HourWindow)]
StatusResult(p, reads) ==
  [remainingMinute |-> Remaining(p.maxPerMinute, reads[1]),
   remainingHour |-> Remaining(p.maxPerHour, reads[2]),
   resetMinuteIn |-> ResetIn(reads[3], MinuteWindow),
   resetHourIn |-> ResetIn(reads[4], HourWindow)]

\* Redis serves the next queued command of getStatus; with the fourth reply
\* Promise.all resolves and the status is returned.
GetStatusRead(c) ==
  /\ pc[c] = "status"
  /\ LET s == arg[c].session
         n == Len(arg[c].reads) + 1
         reads == Append(arg[c].reads, StatusCommand(store, s, n))
         status == StatusResult(arg[c].prefs, reads)
     IN  /\ store' = StatusEffect(store, s, n)
         /\ IF n < 4
              THEN /\ arg' = [arg EXCEPT ![c].reads = reads]
                   /\ last' = NoResult
                   /\ UNCHANGED pc
              ELSE /\ arg' = [arg EXCEPT ![c] = NoArg]
                   /\ pc' = [pc EXCEPT ![c] = "idle"]
                   /\ last' = [op |-> "getStatus", caller |-> c, session |-> s,
                               prefs |-> arg[c].prefs, reads |-> reads,
                               value |-> status, gate |-> arg[c].gate,
                               decision |-> IF arg[c].gate.via
                                              THEN DecisionFromStatus(status)
                                              ELSE NoDecision]
  /\ UNCHANGED <<prefs, calls, budget, elapses, age, obs, tally, qh, rateLimiterInstance>>

\* reset, up to the await: DEL of both keys is sent.
CallReset(c, s) ==
  /\ pc[c] = "idle"
  /\ calls < budget
  /\ pc' = [pc EXCEPT ![c] = "del"]
  /\ arg' = [arg EXCEPT ![c] = [session |-> s]]
  /\ calls' = calls + 1
  /\ last' = NoResult
  /\ UNCHANGED <<store, prefs, budget, elapses, age, obs, tally, qh, rateLimiterInstance>>

\* reset, from the await on: Redis removes both keys in one command.
Del(c) ==
  /\ pc[c] = "del"
  /\ LET s == arg[c].session
     IN  /\ store' = DEL(store, MinuteKey(s), HourKey(s))
         /\ age' = [age EXCEPT ![MinuteKey(s)] = 0, ![HourKey(s)] = 0]
         /\ obs' = [obs EXCEPT ![MinuteKey(s)] = <<>>, ![HourKey(s)] = <<>>]
         /\ tally' = [tally EXCEPT ![s] = NoTally]
         /\ last' = [op |-> "reset", caller |-> c, session |-> s,
                     had |-> store[MinuteKey(s)].present /\ store[HourKey(s)].present]
  /\ pc' = [pc EXCEPT ![c] = "idle"]
  /\ arg' = [arg EXCEPT ![c] = NoArg]
  /\ UNCHANGED <<prefs, calls, budget, elapses, qh, rateLimiterInstance>>

\* decide: quiet hours first (send is what shouldSend returned for the
\* notification).  A suppressed notification is answered from getStatus; any
\* other goes through checkAndRecord.
CallDecide(c, s, send) ==
  /\ pc[c] = "idle"
  /\ calls < budget
  /\ IF send
           THEN /\ pc' = [pc EXCEPT ![c] = "eval"]
                /\ arg' = [arg EXCEPT ![c] = [session |-> s, prefs |-> prefs,
                                              gate |-> ViaGate(send)]]
           ELSE /\ pc' = [pc EXCEPT ![c] = "status"]
                /\ arg' = [arg EXCEPT ![c] = [session |-> s, prefs |-> prefs,
                                              reads |-> <<>>,
                                              gate |-> ViaGate(send)]]
  /\ calls' = calls + 1
  /\ last' = NoResult
  /\ UNCHANGED <<store, prefs, budget, elapses, age, obs, tally, qh, rateLimiterInstance>>

\* d ms pass: times to live run down and expired keys disappear.
TimePasses(d) ==
  /\ \E k \in Keys : store[k].present
  /\ store' = AfterElapse(store, d)
  /\ age' = [k \in Keys |-> IF store'[k].present THEN age[k] + d ELSE 0]
  /\ obs' = [k \in Keys |-> IF store'[k].present THEN obs[k] ELSE <<>>]
  /\ last' = NoResult
  /\ UNCHANGED <<prefs, pc, arg, calls, budget, qh, rateLimiterInstance>>

\* The same, as one of the MaxElapse steps of time of a bounded run.
Elapse(d) ==
  /\ elapses < MaxElapse
  /\ TimePasses(d)
  /\ elapses' = elapses + 1
  /\ tally' = [s \in Sessions |-> NoTally]

Next ==
  \/ \E c \in Callers, s \in Sessions : CallCheckAndRecord(c, s)
  \/ \E c \in Callers : EvalScript(c)
  \/ \E c \in Callers, s \in Sessions : CallReset(c, s)
  \/ \E c \in Callers : Del(c)
  \/ \E d \in Durations : Elapse(d)

Spec == Init /\ [][Next]_vars

\* Calls only, against fresh counters and with no time passing: a burst.
BurstPrefs ==
  {[maxPerMinute |-> n, maxPerHour |-> h] :
     n \in 0..(MaxCalls - 1), h \in MaxCalls..(MaxCalls + 1)}

InitBurst ==
  /\ InitCommon(BurstCallers, MaxCalls)
  /\ prefs \in BurstPrefs

NextBurst ==
  \/ \E c \in Callers, s \in Sessions : CallCheckAndRecord(c, s)
  \/ \E c \in Callers : EvalScript(c)

SpecBurst == InitBurst /\ [][NextBurst]_vars

\* One caller issuing its calls one after the other, also with the prefs of
\* the documented scenario.
ScenarioPrefs == [maxPerMinute |-> 5, maxPerHour |-> 100]

InitScenario ==
  \/ /\ InitCommon(1, MaxCalls)
     /\ prefs \in PrefsChoices
  \/ /\ InitCommon(1, ScenarioCalls)
     /\ prefs = ScenarioPrefs

NextScenario ==
  \/ \E c \in Callers, s \in Sessions : CallCheckAndRecord(c, s)
  \/ \E c \in Callers : EvalScript(c)
  \/ \E d \in Durations : Elapse(d)

SpecScenario == InitScenario /\ [][NextScenario]_vars

\* The gate in front of the rate limiter.
Overnight(tz, override) ==
  [quietHoursEnabled |-> TRUE,
   quietHoursStart |-> Str(<<"2", "3", ":", "0", "0">>),
   quietHoursEnd |-> Str(<<"0", "7", ":", "0", "0">>),
   quietHoursTimezone |-> tz,
   quietHoursOverrideCritical |-> override]
Disabled == [Overnight("UTC", TRUE) EXCEPT !.quietHoursEnabled = FALSE]

\* The notifications offered to the gate: prefs, severity and the instant
\* (minutes since midnight UTC).
GateInputs ==
  {[q |-> Disabled, severity |-> "low", now |-> 23 * 60 + 30],
   [q |-> Overnight("UTC", TRUE), severity |-> "low", now |-> 12 * 60],
   [q |-> Overnight("UTC", TRUE), severity |-> "high", now |-> 23 * 60 + 30],
   [q |-> Overnight("UTC", TRUE), severity |-> "warning", now |-> 23 * 60 + 30],
   [q |-> Overnight("Mars/Phobos", FALSE), severity |-> "high", now |-> 30],
   [q |-> Overnight("Asia/Kolkata", TRUE), severity |-> "low", now |-> 18 * 60]}

\* What shouldSend answers for each of them, by runtime.
GateSends ==
  [in \in GateInputs, midnightIs24 \in BOOLEAN |->
     ShouldSend(in.q, in.severity, in.now, midnightIs24)]

InitGate ==
  /\ InitCommon(GateCallers, GateCalls)
  /\ prefs \in {p \in PrefsChoices : p.maxPerMinute = 1 /\ p.maxPerHour = MaxCapHour}

NextGate ==
  \/ \E c \in Callers, s \in Sessions, in \in GateInputs, midnightIs24 \in BOOLEAN :
       CallDecide(c, s, GateSends[in, midnightIs24])
  \/ \E c \in Callers : EvalScript(c)
  \/ \E c \in Callers : GetStatusRead(c)
  \/ \E d \in Durations : Elapse(d)

SpecGate == InitGate /\ [][NextGate]_vars

\* The quiet-hours service called on its own.
Severities == {"low", "warning", "high"}
TimeText(hour, minute) == TwoDigits(hour) \o <<":">> \o TwoDigits(minute)

\* Values of quietHoursStart and quietHoursEnd: none, times of day, and
\* strings that are not a time of day.
TimeTexts ==
  {Null,
   Str(TimeText(0, 0)), Str(TimeText(0, 10)), Str(TimeText(1, 0)),
   Str(TimeText(6, 0)), Str(TimeText(7, 0)), Str(TimeText(22, 0)),
   Str(TimeText(23, 0)),
   Str(TimeText(25, 0)), Str(<<"7">>), Str(<<"a", "b", ":", "0", "0">>)}

\* Values of quietHoursTimezone: known zones, none, and an unknown one.
TimeZoneTexts == {"UTC", "Asia/Kolkata", "", "Mars/Phobos"}

QuietPrefsChoices ==
  {[quietHoursEnabled |-> e, quietHoursStart |-> s, quietHoursEnd |-> n,
    quietHoursTimezone |-> tz, quietHoursOverrideCritical |-> o] :
     e \in BOOLEAN, s \in TimeTexts, n \in TimeTexts, tz \in TimeZoneTexts,
     o \in BOOLEAN}

\* Instants (minutes since midnight UTC) at which the service is called.
Instants ==
  {10, 30, 60, 3 * 60, 6 * 60, 6 * 60 + 59, 12 * 60, 23 * 60, 23 * 60 + 30}

EventTypes == {"session_started", "session_stopped", "server_down", "server_up"}

InitQuiet ==
  /\ InitLimiter(1, 0)
  /\ prefs = ScenarioPrefs
  /\ qh \in {[op |-> "none", with |-> "none", result |-> FALSE, inFlight |-> 0,
              q |-> q, now |-> now, midnightIs24 |-> m] :
               q \in QuietPrefsChoices, now \in Instants, m \in BOOLEAN}

\* QuietHoursService holds no store connection: its methods leave the store
\* as it is.
QuietHoursEffectCounts(st) == INCR(st, MinuteKey("s1"))
QuietHoursEffect(st) == st

\* The rate limiter calls that are between their start and their return.
InFlight == Cardinality({c \in Callers : pc[c] # "idle"})

CallIsQuietTime ==
  /\ qh.op = "none"
  /\ qh' = [qh EXCEPT !.op = "isQuietTime", !.inFlight = InFlight,
                      !.result = IsQuietTime(qh.q, qh.now, qh.midnightIs24)]
  /\ store' = QuietHoursEffect(store)
  /\ UNCHANGED <<prefs, pc, arg, last, calls, budget, elapses, age, obs, tally,
               rateLimiterInstance>>

CallShouldSend(severity) ==
  /\ qh.op = "none"
  /\ qh' = [qh EXCEPT !.op = "shouldSend", !.with = severity, !.inFlight = InFlight,
                      !.result = ShouldSend(qh.q, severity, qh.now, qh.midnightIs24)]
  /\ store' = QuietHoursEffect(store)
  /\ UNCHANGED <<prefs, pc, arg, last, calls, budget, elapses, age, obs, tally,
               rateLimiterInstance>>

CallShouldSendEvent(eventType) ==
  /\ qh.op = "none"
  /\ qh' = [qh EXCEPT !.op = "shouldSendEvent", !.with = eventType,
                      !.inFlight = InFlight,
                      !.result = ShouldSendEvent(qh.q, eventType, qh.now,
                                                 qh.midnightIs24)]
  /\ store' = QuietHoursEffect(store)
  /\ UNCHANGED <<prefs, pc, arg, last, calls, budget, elapses, age, obs, tally,
               rateLimiterInstance>>

NextQuiet ==
  \/ CallIsQuietTime
  \/ \E severity \in Severities : CallShouldSend(severity)
  \/ \E eventType \in EventTypes : CallShouldSendEvent(eventType)

SpecQuiet == InitQuiet /\ [][NextQuiet]_vars

\* Quiet-hours calls made while rate limiter calls are under way.
InitConcurrent ==
  /\ InitLimiter(ConcurrentCallers, ConcurrentCalls)
  /\ prefs \in {p \in PrefsChoices : p.maxPerMinute = 1 /\ p.maxPerHour = MaxCapHour}
  /\ qh \in {[op |-> "none", with |-> "none", result |-> FALSE, inFlight |-> 0,
              q |-> q, now |-> 23 * 60 + 30, midnightIs24 |-> FALSE] :
               q \in {Overnight("UTC", TRUE), Disabled}}

NextConcurrent ==
  \/ CallIsQuietTime
  \/ \E severity \in Severities : CallShouldSend(severity)
  \/ \E eventType \in EventTypes : CallShouldSendEvent(eventType)
  \/ \E c \in Callers, s \in Sessions : CallCheckAndRecord(c, s)
  \/ \E c \in Callers : EvalScript(c)
  \/ \E c \in Callers, s \in Sessions : CallGetStatus(c, s)
  \/ \E c \in Callers : GetStatusRead(c)
  \/ \E c \in Callers, s \in Sessions : CallReset(c, s)
  \/ \E c \in Callers : Del(c)

SpecConcurrent == InitConcurrent /\ [][NextConcurrent]_vars

\* The rate limiter called directly, with store commands that may fail.
\* A rejected eval, get or ttl is awaited without a try/catch: the rejection
\* leaves checkAndRecord or getStatus as its error, and no result is built.
OnStoreFailureFailOpen(p) ==
  [error |-> FALSE,
   value |-> [allowed |-> TRUE,
              remainingMinute |-> p.maxPerMinute, remainingHour |-> p.maxPerHour,
              resetMinuteIn |-> MinuteWindow, resetHourIn |-> HourWindow]]
OnStoreFailure(p) == [error |-> TRUE]

\* The eval fails: the script did not run, or it ran and its reply was lost.
EvalFails(c, ran) ==
  /\ pc[c] = "eval"
  /\ LET s == arg[c].session
         p == arg[c].prefs
         out == RateLimitScript(store, MinuteKey(s), HourKey(s),
                                p.maxPerMinute, p.maxPerHour)
         res == CheckAndRecordResult(p, out.reply)
     IN  /\ store' = IF ran THEN out.store ELSE store
         /\ obs' = IF ran /\ res.allowed
                     THEN [obs EXCEPT
                             ![MinuteKey(s)] = ObsAfter(MinuteKey(s), out.reply[2],
                                                        res.remainingMinute),
                             ![HourKey(s)] = ObsAfter(HourKey(s), out.reply[3],
                                                      res.remainingHour)]
                     ELSE obs
         /\ last' = [op |-> "failed", of |-> "checkAndRecord", caller |-> c,
                     session |-> s, ran |-> ran, outcome |-> OnStoreFailure(p)]
  /\ pc' = [pc EXCEPT ![c] = "idle"]
  /\ arg' = [arg EXCEPT ![c] = NoArg]
  /\ UNCHANGED <<prefs, calls, budget, elapses, age, tally, qh, rateLimiterInstance>>

\* One of the four commands of getStatus fails: Promise.all rejects.
GetStatusFails(c) ==
  /\ pc[c] = "status"
  /\ last' = [op |-> "failed", of |-> "getStatus", caller |-> c,
              session |-> arg[c].session, ran |-> FALSE,
              outcome |-> OnStoreFailure(arg[c].prefs)]
  /\ pc' = [pc EXCEPT ![c] = "idle"]
  /\ arg' = [arg EXCEPT ![c] = NoArg]
  /\ UNCHANGED <<store, prefs, calls, budget, elapses, age, obs, tally, qh, rateLimiterInstance>>

\* Time passes here in steps that leave the minute counter 400 ms to live.
StatusDurations == {d \in Durations : d > MsPerSecond /\ d < MinuteWindow * MsPerSecond}

InitStatus ==
  /\ InitCommon(StatusCallers, StatusCalls)
  /\ prefs \in {p \in PrefsChoices : p.maxPerMinute = 1 /\ p.maxPerHour = MaxCapHour}

NextStatus ==
  \/ \E c \in Callers, s \in Sessions : CallCheckAndRecord(c, s)
  \/ \E c \in Callers : EvalScript(c)
  \/ \E c \in Callers, ran \in BOOLEAN : EvalFails(c, ran)
  \/ \E c \in Callers, s \in Sessions : CallGetStatus(c, s)
  \/ \E c \in Callers : GetStatusRead(c)
  \/ \E c \in Callers : GetStatusFails(c)
  \/ \E d \in StatusDurations : Elapse(d)

SpecStatus == InitStatus /\ [][NextStatus]_vars

\* Every operation of the rate limiter, on both sessions, with time passing.
InitFull ==
  /\ InitCommon(FullCallers, FullCalls)
  /\ prefs \in {p \in PrefsChoices : p.maxPerMinute = 1 /\ p.maxPerHour = MaxCapHour}

NextFull ==
  \/ \E c \in Callers, s \in Sessions : CallCheckAndRecord(c, s)
  \/ \E c \in Callers : EvalScript(c)
  \/ \E c \in Callers, s \in Sessions : CallGetStatus(c, s)
  \/ \E c \in Callers : GetStatusRead(c)
  \/ \E c \in Callers, s \in Sessions : CallReset(c, s)
  \/ \E c \in Callers : Del(c)
  \/ \E d \in StatusDurations : Elapse(d)

SpecFull == InitFull /\ [][NextFull]_vars

\* Callers that pass different prefs from one call to the next.
ChangePrefs(p) ==
  /\ p # prefs
  /\ calls < budget
  /\ \A c \in Callers : pc[c] = "idle"
  /\ prefs' = p
  /\ last' = NoResult
  /\ UNCHANGED <<store, pc, arg, calls, budget, elapses, age, obs, tally, qh, rateLimiterInstance>>

InitPrefs ==
  /\ InitCommon(1, PrefsCalls)
  /\ prefs \in PrefsChoices

NextPrefs ==
  \/ \E p \in PrefsChoices : ChangePrefs(p)
  \/ \E c \in Callers, s \in Sessions : CallCheckAndRecord(c, s)
  \/ \E c \in Callers : EvalScript(c)
  \/ \E c \in Callers, s \in Sessions : CallGetStatus(c, s)
  \/ \E c \in Callers : GetStatusRead(c)

SpecPrefs == InitPrefs /\ [][NextPrefs]_vars

\* One caller calling across the end of a minute window, with an hour cap
\* that never interferes.
InitSliding ==
  /\ InitCommon(1, SlidingCalls)
  /\ prefs \in {p \in BurstPrefs : p.maxPerMinute >= 1}

NextSliding ==
  \/ \E c \in Callers, s \in Sessions : CallCheckAndRecord(c, s)
  \/ \E c \in Callers : EvalScript(c)
  \/ \E d \in Durations : Elapse(d)

SpecSliding == InitSliding /\ [][NextSliding]_vars
\* One getStatus call, invoked on the empty store, with checkAndRecord calls
\* of other callers served between its commands; no time passes.
InitSnapshot ==
  /\ InitCommon(SnapshotCallers, SnapshotCalls)
  /\ prefs \in {p \in PrefsChoices : p.maxPerMinute >= 1 /\ p.maxPerHour >= 1}

NextSnapshot ==
  \/ \E c \in Callers, s \in Sessions : calls = 0 /\ CallGetStatus(c, s)
  \/ \E c \in Callers, s \in Sessions : calls > 0 /\ CallCheckAndRecord(c, s)
  \/ \E c \in Callers : EvalScript(c)
  \/ \E c \in Callers : GetStatusRead(c)

SpecSnapshot == InitSnapshot /\ [][NextSnapshot]_vars

\* One session that keeps calling while time keeps passing, without end: the
\* calls and the steps of time are not counted.
CheckAndRecordAgain(c, s) ==
  /\ pc[c] = "idle"
  /\ pc' = [pc EXCEPT ![c] = "eval"]
  /\ arg' = [arg EXCEPT ![c] = [session |-> s, prefs |-> prefs, gate |-> Direct]]
  /\ last' = NoResult
  /\ UNCHANGED <<store, prefs, calls, budget, elapses, age, obs, tally, qh, rateLimiterInstance>>

EvalAgain(c) == EvalCore(c) /\ UNCHANGED tally

LiveDurations == {d \in Durations : d > MsPerSecond}
LiveSessions == {"s1"}
TimePassesAgain(d) == TimePasses(d) /\ UNCHANGED <<elapses, tally>>

InitLive ==
  /\ InitCommon(1, 0)
  /\ prefs \in {p \in PrefsChoices : p.maxPerMinute = 1 /\ p.maxPerHour >= 1}

NextLive ==
  \/ \E c \in Callers, s \in LiveSessions : CheckAndRecordAgain(c, s)
  \/ \E c \in Callers : EvalAgain(c)
  \/ \E d \in LiveDurations : TimePassesAgain(d)

\* The session keeps calling, Redis serves every eval, and time keeps
\* passing while a counter exists.
FairLive ==
  /\ \A s \in LiveSessions : SF_vars(\E c \in Callers : CheckAndRecordAgain(c, s))
  /\ WF_vars(\E c \in Callers : EvalAgain(c))
  /\ WF_vars(\E d \in LiveDurations : TimePassesAgain(d))

SpecLive == InitLive /\ [][NextLive]_vars /\ FairLive

\* The module-level instance.  new PushRateLimiter(redis) makes an object
\* distinct from every one made before: the id counts the objects made.
Connections == {"redisA", "redisB"}
NewInstanceKeepFirst(current, redis) ==
  IF current.null THEN [null |-> FALSE, id |-> 1, redis |-> redis] ELSE current
NewInstance(current, redis) ==
  [null |-> FALSE, id |-> IF current.null THEN 1 ELSE current.id + 1, redis |-> redis]

InitPushRateLimiter(redis) ==
  /\ IF rateLimiterInstance.null THEN TRUE ELSE rateLimiterInstance.id < MaxInits
  /\ rateLimiterInstance' = NewInstance(rateLimiterInstance, redis)
  /\ last' = [op |-> "initPushRateLimiter", value |-> rateLimiterInstance']
  /\ UNCHANGED <<store, prefs, pc, arg, calls, budget, elapses, age, obs, tally, qh>>

GetPushRateLimiter ==
  /\ last' = [op |-> "getPushRateLimiter", value |-> rateLimiterInstance]
  /\ UNCHANGED <<store, prefs, pc, arg, calls, budget, elapses, age, obs, tally, qh,
                 rateLimiterInstance>>

\* The server initialises the limiter, more than once perhaps, and callers
\* fetch the instance and call checkAndRecord on it.
InitInstance ==
  /\ InitCommon(1, InstanceCalls)
  /\ prefs \in {p \in PrefsChoices : p.maxPerMinute = 1 /\ p.maxPerHour = MaxCapHour}

NextInstance ==
  \/ \E redis \in Connections : InitPushRateLimiter(redis)
  \/ GetPushRateLimiter
  \/ \E c \in Callers, s \in Sessions :
       ~rateLimiterInstance.null /\ CallCheckAndRecord(c, s)
  \/ \E c \in Callers : EvalScript(c)

SpecInstance == InitInstance /\ [][NextInstance]_vars

\* ================================================================ claims
Count(st, key) == NumberOrZero(GET(st, key))
Pending(s) == {c \in Callers : pc[c] = "eval" /\ arg[c].session = s}
Calls(s) == tally[s].allowed + tally[s].deniedMinute + tally[s].deniedHour
Returned == last.op = "checkAndRecord"
Denied == Returned /\ ~last.value.allowed
Allowed == Returned /\ last.value.allowed

\* C1: with maxPerMinute = N and maxPerHour >= M, once M > N concurrent
\* checkAndRecord calls against fresh counters have all returned, exactly N
\* were allowed and the other M - N were denied with exceededLimit 'minute',
\* whatever the order in which Redis ran them.
C1_BurstAllowsExactlyN ==
  \A s \in Sessions :
    (Pending(s) = {} /\ Calls(s) > prefs.maxPerMinute /\ prefs.maxPerHour >= Calls(s))
      => /\ tally[s].allowed = prefs.maxPerMinute
         /\ tally[s].deniedMinute = Calls(s) - prefs.maxPerMinute

C1_Witness ==
  \E s \in Sessions :
    /\ Pending(s) = {}
    /\ prefs.maxPerMinute = 1
    /\ tally[s].allowed = 1
    /\ tally[s].deniedMinute = 2

\* C2: the allowed calls of one life of a minute counter number at most
\* maxPerMinute, those of one life of an hour counter at most maxPerHour.
C2_AllowedWithinCaps ==
  \A s \in Sessions :
    /\ Len(obs[MinuteKey(s)]) <= prefs.maxPerMinute
    /\ Len(obs[HourKey(s)]) <= prefs.maxPerHour

C2_Witness ==
  /\ Denied
  /\ prefs.maxPerMinute = 1
  /\ prefs.maxPerHour = 2
  /\ Len(obs[MinuteKey(last.session)]) = 1
  /\ Len(obs[HourKey(last.session)]) = 2

\* C3: a checkAndRecord that returns allowed=false leaves both counters of
\* its session, values and times to live, as they were.
C3_DenialChangesNothing ==
  [][\A c \in Callers :
       (pc[c] = "eval" /\ pc'[c] = "idle" /\ ~last'.value.allowed)
         => /\ store'[MinuteKey(arg[c].session)] = store[MinuteKey(arg[c].session)]
            /\ store'[HourKey(arg[c].session)] = store[HourKey(arg[c].session)]]_vars

C3_Witness ==
  /\ Denied
  /\ last.value.exceededLimit = "hour"
  /\ store[MinuteKey(last.session)].present
  /\ store[HourKey(last.session)].present

\* The two counts of a session move together, and the remaining budgets
\* returned within a window go down one at a time.
C4_BothByOne ==
  /\ \A c \in Callers :
       (pc[c] = "eval" /\ pc'[c] = "idle" /\ last'.value.allowed)
         => /\ Count(store', MinuteKey(arg[c].session))
                 = Count(store, MinuteKey(arg[c].session)) + 1
            /\ Count(store', HourKey(arg[c].session))
                 = Count(store, HourKey(arg[c].session)) + 1
  /\ \A s \in Sessions :
       (Count(store', MinuteKey(s)) > Count(store, MinuteKey(s)))
         <=> (Count(store', HourKey(s)) > Count(store, HourKey(s)))

C4_RemainingChain ==
  \A k \in Keys : \A i \in 2..Len(obs[k]) :
    obs[k][i].remaining = obs[k][i - 1].remaining - 1

\* C4: an allowed checkAndRecord raises the minute count and the hour count
\* of its session by exactly 1 in the same step, no step raises one of them
\* without the other, and within a window each allowed call returns a
\* remaining budget one below that of the allowed call before it.
C4_AllowedIncrementsBoth == [][C4_BothByOne /\ C4_RemainingChain']_vars

C4_Witness ==
  /\ Allowed
  /\ Len(obs[MinuteKey(last.session)]) >= 2
  /\ Len(obs[HourKey(last.session)]) >= 2

\* The steps of a decide, by what shouldSend returned for it.
C5_QuietPath ==
  \A c \in Callers :
    /\ (pc[c] = "status" /\ arg[c].gate.via /\ (pc'[c] # pc[c] \/ arg'[c] # arg[c]))
         => (~arg[c].gate.send /\ store' = store)
    /\ (pc'[c] = "eval" /\ pc[c] = "idle" /\ arg'[c].gate.via) => arg'[c].gate.send
    /\ (pc'[c] = "status" /\ pc[c] = "idle" /\ arg'[c].gate.via) => ~arg'[c].gate.send

\* C5: a decide that quiet hours suppress (shouldSend false) is answered
\* from getStatus alone: none of its steps changes a counter or a time to
\* live, and checkAndRecord is entered only by a decide whose shouldSend
\* returned true.
C5_QuietHoursKeepBudget == [][C5_QuietPath]_vars

C5_Witness ==
  /\ last.op = "getStatus"
  /\ last.gate.via
  /\ last.decision.reason = "quiet_hours"
  /\ store[MinuteKey(last.session)].present
  /\ last.value.remainingMinute = 0

\* The cause carried by a result and by a decision.
C6_CheckResult ==
  last.op = "checkAndRecord"
    => (("exceededLimit" \in DOMAIN last.value
           /\ last.value.exceededLimit \in {"minute", "hour"})
         <=> ~last.value.allowed)

C6_Decision ==
  (last.op \in {"checkAndRecord", "getStatus"} /\ last.gate.via)
    => LET d == last.decision
       IN  /\ ("reason" \in DOMAIN d /\ d.reason \in {"quiet_hours", "rate_limited"})
                <=> ~d.allowed
           /\ ("reason" \in DOMAIN d /\ d.reason = "quiet_hours") <=> ~last.gate.send
           /\ d.allowed => "reason" \notin DOMAIN d

\* C6: a checkAndRecord result names an exceeded limit, 'minute' or 'hour',
\* exactly when it is a denial; a gate decision carries a reason,
\* 'quiet_hours' or 'rate_limited', exactly when it is a denial, and the
\* reason is 'quiet_hours' exactly when shouldSend returned false.
C6_DenialsCarryCause == C6_CheckResult /\ C6_Decision

C6_Witness ==
  /\ last.op = "checkAndRecord"
  /\ last.gate.via
  /\ last.decision.allowed = FALSE
  /\ last.decision.reason = "rate_limited"
  /\ last.value.exceededLimit = "minute"

\* C7: with both caps reached the denial names 'minute'; 'hour' is named only
\* when the minute count is below its cap and the hour count is not.
C7_MinuteCheckedFirst ==
  [][\A c \in Callers :
       (pc[c] = "eval" /\ pc'[c] = "idle")
         => LET m == Count(store, MinuteKey(arg[c].session))
                h == Count(store, HourKey(arg[c].session))
                p == arg[c].prefs
            IN  /\ (m >= p.maxPerMinute /\ h >= p.maxPerHour)
                     => (~last'.value.allowed /\ last'.value.exceededLimit = "minute")
                /\ (~last'.value.allowed /\ last'.value.exceededLimit = "hour")
                     => (m < p.maxPerMinute /\ h >= p.maxPerHour)]_vars

C7_Witness ==
  /\ Denied
  /\ last.value.exceededLimit = "minute"
  /\ prefs.maxPerMinute >= 1
  /\ Count(store, MinuteKey(last.session)) >= prefs.maxPerMinute
  /\ Count(store, HourKey(last.session)) >= prefs.maxPerHour

\* The remaining values of a denial, in general and in the 5/100 scenario.
C8_Denied ==
  \A c \in Callers :
    (pc[c] = "eval" /\ pc'[c] = "idle" /\ ~last'.value.allowed)
      => LET m == Count(store, MinuteKey(arg[c].session))
             h == Count(store, HourKey(arg[c].session))
             p == arg[c].prefs
             v == last'.value
         IN  /\ v.exceededLimit = "minute"
                  => (v.remainingMinute = 0 /\ v.remainingHour = Max(0, p.maxPerHour - h))
             /\ v.exceededLimit = "hour"
                  => (v.remainingHour = 0 /\ v.remainingMinute = Max(0, p.maxPerMinute - m))

C8_Scenario ==
  \A c \in Callers :
    (/\ pc[c] = "eval" /\ pc'[c] = "idle"
     /\ arg[c].prefs = ScenarioPrefs
     /\ Count(store, MinuteKey(arg[c].session)) = Count(store, HourKey(arg[c].session)))
      => IF Count(store, MinuteKey(arg[c].session)) < 5
           THEN last'.value.allowed
           ELSE /\ ~last'.value.allowed
                /\ last'.value.remainingMinute = 0
                /\ last'.value.remainingHour = 95

\* C8: a denial reports 0 for the exceeded dimension and max(0, cap - count)
\* for the other; with maxPerMinute=5 and maxPerHour=100 and both windows
\* started together, calls are allowed up to the fifth and the next is denied
\* with remainingMinute=0 and remainingHour=95.
C8_DeniedRemaining == [][C8_Denied /\ C8_Scenario]_vars

C8_Witness ==
  /\ Denied
  /\ last.prefs = ScenarioPrefs
  /\ last.reply[2] = 5
  /\ last.value.remainingMinute = 0
  /\ last.value.remainingHour = 95

\* C9: a counter's time to live is set when the counter is created, to 60 s
\* (minute) or 3600 s (hour), and never changed while the counter lives: at
\* every moment what is left plus the counter's age is the window length.
C9_TtlSetOnce ==
  \A k \in Keys :
    store[k].present
      => /\ store[k].pttl > 0
         /\ store[k].pttl + age[k] = WindowOf(k) * MsPerSecond

C9_Witness ==
  \E k \in Keys :
    /\ store[k].present
    /\ Len(obs[k]) >= 2
    /\ obs[k][2].at > 0
    /\ age[k] > obs[k][2].at

\* C10: the allowed calls of one window see the counts 1, 2, ..., k in the
\* order in which Redis ran them, none repeated or skipped, and the stored
\* count is the number of allowed calls.
C10_ConsecutiveCounts ==
  \A k \in Keys :
    /\ \A i \in 1..Len(obs[k]) : obs[k][i].count = i
    /\ store[k].present => store[k].val = Len(obs[k])

C10_Witness ==
  \E c \in Callers :
    /\ pc[c] = "eval"
    /\ Allowed
    /\ last.caller # c
    /\ last.session = arg[c].session
    /\ Len(obs[MinuteKey(last.session)]) = 2

\* The steps of a counter's life: how it appears, grows and disappears, and
\* what reset and the first call on absent counters do.
C12_Appears(k) ==
  (~store[k].present /\ store'[k].present)
    => /\ last'.op = "checkAndRecord" /\ last'.value.allowed /\ last'.session = k[2]
       /\ store'[k].val = 1

C12_Grows(k) ==
  (store[k].present /\ store'[k].present) => store'[k].val >= store[k].val

C12_Disappears(k) ==
  (store[k].present /\ ~store'[k].present)
    => \/ \E d \in Durations : Expired(store[k], d) /\ store' = AfterElapse(store, d)
       \/ last'.op = "reset" /\ last'.session = k[2]

C12_Reset ==
  last'.op = "reset"
    => /\ store'[MinuteKey(last'.session)] = Absent
       /\ store'[HourKey(last'.session)] = Absent

C12_FreshStart ==
  \A c \in Callers :
    (/\ pc[c] = "eval" /\ pc'[c] = "idle"
     /\ ~store[MinuteKey(arg[c].session)].present
     /\ ~store[HourKey(arg[c].session)].present
     /\ arg[c].prefs.maxPerMinute >= 1 /\ arg[c].prefs.maxPerHour >= 1)
      => /\ last'.value.allowed
         /\ store'[MinuteKey(arg[c].session)]
              = [present |-> TRUE, val |-> 1, pttl |-> MinuteWindow * MsPerSecond]
         /\ store'[HourKey(arg[c].session)]
              = [present |-> TRUE, val |-> 1, pttl |-> HourWindow * MsPerSecond]

\* C12: a counter becomes Active only through an allowed checkAndRecord
\* (with count 1), its count never decreases while it is Active, it becomes
\* Absent only through expiry or reset; reset leaves both counters of its
\* session Absent, and a checkAndRecord with caps >= 1 that finds both
\* Absent is allowed and starts both windows with count 1.
C12_CounterLifecycle ==
  [][/\ \A k \in Keys : C12_Appears(k) /\ C12_Grows(k) /\ C12_Disappears(k)
     /\ C12_Reset
     /\ C12_FreshStart]_vars

C12_Witness ==
  /\ last.op = "reset"
  /\ last.had
  /\ ~store[MinuteKey(last.session)].present
  /\ ~store[HourKey(last.session)].present
  /\ prefs.maxPerMinute >= 1
  /\ prefs.maxPerHour >= 1
  /\ \E c \in Callers : pc[c] = "eval" /\ arg[c].session = last.session

\* A step of a getStatus call: its start, or one of its commands being served.
GetStatusStep ==
  \E c \in Callers :
    \/ pc[c] = "idle" /\ pc'[c] = "status"
    \/ pc[c] = "status" /\ (pc'[c] # pc[c] \/ arg'[c] # arg[c])

\* C11: no step of a getStatus call changes a count or a time to live of any
\* session, so the script run next, for any session, leaves the same store
\* and returns the same reply as it would have without the getStatus.
C11_GetStatusChangesNothing ==
  [][GetStatusStep
       => /\ store' = store
          /\ \A s \in Sessions :
               RateLimitScript(store', MinuteKey(s), HourKey(s),
                               prefs.maxPerMinute, prefs.maxPerHour)
                 = RateLimitScript(store, MinuteKey(s), HourKey(s),
                                   prefs.maxPerMinute, prefs.maxPerHour)]_vars

C11_Witness ==
  /\ last.op = "getStatus"
  /\ ~last.gate.via
  /\ store[MinuteKey(last.session)].present
  /\ store[MinuteKey(last.session)].pttl < MinuteWindow * MsPerSecond
  /\ \E c \in Callers : pc[c] = "eval" /\ arg[c].session = last.session

\* C13: a checkAndRecord or getStatus whose store command failed ends in
\* the error: it yields no result object, and so none with allowed = true.
C13_StoreFailureIsAnError ==
  last.op = "failed"
    => /\ last.outcome.error
       /\ "value" \notin DOMAIN last.outcome
       /\ "allowed" \notin DOMAIN last.outcome

C13_Witness ==
  /\ last.op = "failed"
  /\ last.of = "checkAndRecord"
  /\ last.ran
  /\ store[MinuteKey(last.session)].present

\* A time of day written HH:MM, and the minutes since midnight it names.
ValidTime(v) ==
  /\ ~v.null
  /\ Len(v.text) = 5
  /\ v.text[3] = ":"
  /\ \A i \in {1, 2, 4, 5} : IsDigit(v.text[i])
  /\ 10 * DigitValue(v.text[1]) + DigitValue(v.text[2]) <= 23
  /\ 10 * DigitValue(v.text[4]) + DigitValue(v.text[5]) <= 59

ClockMinutes(v) ==
  (10 * DigitValue(v.text[1]) + DigitValue(v.text[2])) * 60
    + 10 * DigitValue(v.text[4]) + DigitValue(v.text[5])

\* The local time of the call, in minutes since midnight (0..1439).
LocalMinutes ==
  (qh.now + UtcOffset(EffectiveTimeZone(qh.q.quietHoursTimezone))) % (24 * 60)

QuietWindowGiven ==
  /\ qh.q.quietHoursEnabled
  /\ ValidTime(qh.q.quietHoursStart)
  /\ ValidTime(qh.q.quietHoursEnd)

\* C14: with quiet hours enabled and start > end, isQuietTime returns true
\* exactly when the local time is >= start or <= end.
C14_OvernightWindow ==
  (/\ qh.op = "isQuietTime"
   /\ QuietWindowGiven
   /\ ClockMinutes(qh.q.quietHoursStart) > ClockMinutes(qh.q.quietHoursEnd))
    => (qh.result <=> \/ LocalMinutes >= ClockMinutes(qh.q.quietHoursStart)
                      \/ LocalMinutes <= ClockMinutes(qh.q.quietHoursEnd))

\* C15: with quiet hours enabled and start <= end, isQuietTime returns true
\* exactly when start <= local time <= end.
C15_SameDayWindow ==
  (/\ qh.op = "isQuietTime"
   /\ QuietWindowGiven
   /\ ClockMinutes(qh.q.quietHoursStart) <= ClockMinutes(qh.q.quietHoursEnd))
    => (qh.result <=> /\ LocalMinutes >= ClockMinutes(qh.q.quietHoursStart)
                      /\ LocalMinutes <= ClockMinutes(qh.q.quietHoursEnd))

\* C16: shouldSend returns true when isQuietTime is false, and in quiet time
\* returns true exactly when overrideCritical is set and the severity is
\* 'high'.
C16_ShouldSend ==
  qh.op = "shouldSend"
    => (qh.result <=>
          \/ ~IsQuietTime(qh.q, qh.now, qh.midnightIs24)
          \/ (qh.q.quietHoursOverrideCritical /\ qh.with = "high"))

C16_Witness ==
  /\ qh.op = "shouldSend"
  /\ IsQuietTime(qh.q, qh.now, qh.midnightIs24)
  /\ qh.q.quietHoursOverrideCritical
  /\ qh.with = "warning"
  /\ ~qh.result

\* The documented scenario: quiet hours 22:00-06:00 with overrideCritical,
\* called at 23:00 local time.
C17_Scenario ==
  /\ qh.q.quietHoursEnabled
  /\ qh.q.quietHoursStart = Str(TimeText(22, 0))
  /\ qh.q.quietHoursEnd = Str(TimeText(6, 0))
  /\ qh.q.quietHoursOverrideCritical
  /\ LocalMinutes = 23 * 60

\* C17: shouldSendEvent answers as shouldSend does with 'high' for
\* server_down and with 'low' for the other events; in the scenario
\* server_down is sent and the other events are not.
C17_ShouldSendEvent ==
  qh.op = "shouldSendEvent"
    => /\ qh.result =
            ShouldSend(qh.q, IF qh.with = "server_down" THEN "high" ELSE "low",
                       qh.now, qh.midnightIs24)
       /\ C17_Scenario => (qh.result <=> qh.with = "server_down")

C17_Witness ==
  /\ qh.op = "shouldSendEvent"
  /\ C17_Scenario
  /\ qh.with = "server_down"
  /\ qh.result

\* C18: with quiet hours not enabled, or without a start, or without an end,
\* isQuietTime returns false and shouldSend returns true, at every instant,
\* for every time zone value and every severity.
C18_OffMeansNeverQuiet ==
  (~qh.q.quietHoursEnabled \/ qh.q.quietHoursStart.null \/ qh.q.quietHoursEnd.null)
    => /\ qh.op = "isQuietTime" => ~qh.result
       /\ qh.op = "shouldSend" => qh.result

C18_Witness ==
  /\ qh.op = "shouldSend"
  /\ ~qh.q.quietHoursEnabled
  /\ qh.q.quietHoursStart = Str(TimeText(23, 0))
  /\ qh.q.quietHoursEnd = Str(TimeText(7, 0))
  /\ qh.q.quietHoursTimezone = "UTC"
  /\ qh.now = 23 * 60 + 30
  /\ qh.with = "low"
  /\ qh.result

\* C19: for an empty time zone or one the runtime does not know, isQuietTime
\* returns a Boolean, the one it returns for the same prefs and instant with
\* the time zone 'UTC'.
C19_UnknownZoneIsUtc ==
  (qh.op = "isQuietTime" /\ qh.q.quietHoursTimezone \notin TimeZones)
    => /\ qh.result \in BOOLEAN
       /\ qh.result = IsQuietTime([qh.q EXCEPT !.quietHoursTimezone = "UTC"],
                                  qh.now, qh.midnightIs24)

C19_Witness ==
  /\ qh.op = "isQuietTime"
  /\ qh.q.quietHoursTimezone = "Mars/Phobos"
  /\ qh.q.quietHoursStart = Str(TimeText(23, 0))
  /\ qh.q.quietHoursEnd = Str(TimeText(7, 0))
  /\ qh.now = 23 * 60 + 30
  /\ qh.result

\* C20: with quiet hours enabled and a start or an end that is not a valid
\* HH:MM time, isQuietTime returns false at every instant.
C20_MalformedMeansOff ==
  (/\ qh.op = "isQuietTime"
   /\ qh.q.quietHoursEnabled
   /\ ~qh.q.quietHoursStart.null
   /\ ~qh.q.quietHoursEnd.null
   /\ (~ValidTime(qh.q.quietHoursStart) \/ ~ValidTime(qh.q.quietHoursEnd)))
    => ~qh.result

\* The session a step works for: that of a caller whose call starts, advances
\* or ends in the step.
Acting(c) ==
  /\ pc[c] # "idle" \/ pc'[c] # "idle"
  /\ pc'[c] # pc[c] \/ arg'[c] # arg[c]

ActingSession(c) == IF pc[c] # "idle" THEN arg[c].session ELSE arg'[c].session

\* The store with the counters of every session but s removed.
OnlySession(st, s) ==
  [k \in Keys |-> IF k[2] = s THEN st[k] ELSE Absent]

\* C22: a step of checkAndRecord, getStatus or reset for one session leaves
\* the counts and times to live of every other session as they were, and what
\* the script returns and what getStatus reads for a session are what they
\* would be with the counters of all other sessions absent.
C22_SessionsIndependent ==
  [][\A c \in Callers : Acting(c) =>
       LET a == ActingSession(c)
       IN  /\ \A k \in Keys : k[2] # a => store'[k] = store[k]
           /\ (pc[c] = "eval" /\ pc'[c] = "idle")
                => last'.reply
                     = RateLimitScript(OnlySession(store, a), MinuteKey(a), HourKey(a),
                                       arg[c].prefs.maxPerMinute,
                                       arg[c].prefs.maxPerHour).reply
           /\ (pc[c] = "status" /\ pc'[c] = "status")
                => arg'[c].reads[Len(arg'[c].reads)]
                     = StatusCommand(OnlySession(store, a), a, Len(arg'[c].reads))]_vars

C22_Witness ==
  /\ last.op = "checkAndRecord"
  /\ last.value.allowed
  /\ last.reply[2] = 1
  /\ \E b \in Sessions \ {last.session} :
       /\ store[MinuteKey(b)].present
       /\ \E c \in Callers : pc[c] # "idle" /\ arg[c].session = b

\* C28: every change of the store is the whole effect of one pending
\* checkAndRecord, of one pending reset, or of time passing, so the store is
\* always the result of running the operations one after the other in the
\* order Redis served them; a reset leaves both counters of its session
\* absent in one step, only expiry ever removes one counter of a session
\* without the other, and a call served after the reset starts both
\* counters at 1 with fresh times to live.
C28_ResetLastWriterWins ==
  [][/\ store' # store
          => \/ \E c \in Callers :
                  /\ pc[c] = "eval" /\ pc'[c] = "idle"
                  /\ store' = RateLimitScript(store, MinuteKey(arg[c].session),
                                              HourKey(arg[c].session),
                                              arg[c].prefs.maxPerMinute,
                                              arg[c].prefs.maxPerHour).store
             \/ \E c \in Callers :
                  /\ pc[c] = "del" /\ pc'[c] = "idle"
                  /\ store' = [store EXCEPT ![MinuteKey(arg[c].session)] = Absent,
                                            ![HourKey(arg[c].session)] = Absent]
             \/ \E d \in Durations : store' = AfterElapse(store, d)
     /\ \A c \in Callers :
          (pc[c] = "del" /\ pc'[c] = "idle")
            => /\ ~store'[MinuteKey(arg[c].session)].present
               /\ ~store'[HourKey(arg[c].session)].present
     /\ \A s \in Sessions :
          (\/ store[MinuteKey(s)].present /\ ~store'[MinuteKey(s)].present
                /\ store'[HourKey(s)].present
           \/ store[HourKey(s)].present /\ ~store'[HourKey(s)].present
                /\ store'[MinuteKey(s)].present)
            => elapses' = elapses + 1
     /\ C12_FreshStart]_vars

C28_Witness ==
  /\ last.op = "reset"
  /\ last.had
  /\ \E c \in Callers :
       /\ pc[c] = "eval"
       /\ arg[c].session = last.session
       /\ arg[c].prefs.maxPerMinute >= 1
       /\ arg[c].prefs.maxPerHour >= 1
  /\ \A k \in Keys : k[2] = last.session => store[k] = Absent

\* C30: every counter that exists has a count of at least 1 and a time to
\* live that is set and is at most 60 s (minute) or 3600 s (hour).
C30_CountersHaveTtl ==
  \A k \in Keys :
    store[k].present
      => /\ store[k].val >= 1
         /\ store[k].pttl # TtlNoExpiry
         /\ store[k].pttl >= 1
         /\ store[k].pttl <= WindowOf(k) * MsPerSecond

C30_Witness ==
  \E s \in Sessions :
    /\ store[HourKey(s)].present
    /\ ~store[MinuteKey(s)].present
    /\ store[HourKey(s)].pttl < HourWindow * MsPerSecond
    /\ \E c \in Callers : pc[c] = "status" /\ arg[c].session = s /\ Len(arg[c].reads) >= 1
    /\ \E b \in Sessions \ {s} : store[MinuteKey(b)].present

\* A checkAndRecord call whose script runs in this step.
EvalStep(c) == pc[c] = "eval" /\ pc'[c] = "idle" /\ last'.op = "checkAndRecord"

\* C21: a checkAndRecord call made with maxPerMinute = 0 or maxPerHour = 0 is
\* denied whatever the store holds and leaves every counter as it was, absent
\* ones absent; with maxPerMinute = 0 the exceeded limit is 'minute', and with
\* maxPerHour = 0, maxPerMinute >= 1 and the minute count below its cap it is
\* 'hour'.
C21_ZeroCapAlwaysDenies ==
  [][\A c \in Callers : EvalStep(c) =>
       LET p == arg[c].prefs
           s == arg[c].session
       IN  /\ (p.maxPerMinute = 0 \/ p.maxPerHour = 0)
                => /\ ~last'.value.allowed
                   /\ store' = store
           /\ p.maxPerMinute = 0 => last'.value.exceededLimit = "minute"
           /\ (p.maxPerHour = 0 /\ p.maxPerMinute >= 1
                 /\ Count(store, MinuteKey(s)) < p.maxPerMinute)
                => last'.value.exceededLimit = "hour"]_vars

C21_Witness ==
  /\ Denied
  /\ last.prefs.maxPerMinute = 0
  /\ last.value.exceededLimit = "minute"
  /\ store[MinuteKey(last.session)].present
  /\ \E b \in Sessions \ {last.session} : ~store[HourKey(b)].present

\* C26: remainingMinute and remainingHour of every checkAndRecord and
\* getStatus result lie in 0..maxPerMinute and 0..maxPerHour of the prefs the
\* call was made with; a checkAndRecord call whose cap is below the count
\* already stored is denied, changes no counter and reports 0 remaining for
\* that dimension, and getStatus reports 0 for it as well.
C26_RemainingWithinCap ==
  [][/\ last'.op \in {"checkAndRecord", "getStatus"}
          => /\ last'.value.remainingMinute \in 0..last'.prefs.maxPerMinute
             /\ last'.value.remainingHour \in 0..last'.prefs.maxPerHour
     /\ \A c \in Callers : EvalStep(c) =>
          LET p == arg[c].prefs
              s == arg[c].session
          IN  /\ Count(store, MinuteKey(s)) > p.maxPerMinute
                   => /\ ~last'.value.allowed
                      /\ store' = store
                      /\ last'.value.remainingMinute = 0
              /\ Count(store, HourKey(s)) > p.maxPerHour
                   => /\ ~last'.value.allowed
                      /\ store' = store
                      /\ last'.value.remainingHour = 0
     /\ last'.op = "getStatus"
          => /\ last'.reads[1] > last'.prefs.maxPerMinute
                  => last'.value.remainingMinute = 0
             /\ last'.reads[2] > last'.prefs.maxPerHour
                  => last'.value.remainingHour = 0]_vars

C26_Witness ==
  /\ Denied
  /\ last.prefs.maxPerMinute >= 1
  /\ Count(store, MinuteKey(last.session)) > last.prefs.maxPerMinute
  /\ Count(store, HourKey(last.session)) <= last.prefs.maxPerHour
  /\ last.value.remainingMinute = 0

\* The reset-in a result should carry for a counter whose key is in state e.
ExpectedResetIn(st, key) ==
  IF st[key].present THEN TTL(st, key) ELSE WindowOf(key)

\* C25: in a checkAndRecord result, and for the time to live getStatus read
\* last, the reset-in equals the counter's remaining time to live when its key
\* exists and the full window when the key is absent; in a getStatus result
\* the minute reset-in is the time to live that was read, or the full window
\* if the key was absent at that read; no reset-in is 0 or negative.
C25_ResetInIsTtlOrWindow ==
  /\ last.op = "checkAndRecord"
       => /\ last.value.resetMinuteIn = ExpectedResetIn(store, MinuteKey(last.session))
          /\ last.value.resetHourIn = ExpectedResetIn(store, HourKey(last.session))
          /\ last.value.resetMinuteIn > 0
          /\ last.value.resetHourIn > 0
  /\ last.op = "getStatus"
       => /\ last.value.resetMinuteIn =
               (IF last.reads[3] = TtlNoKey THEN MinuteWindow ELSE last.reads[3])
          /\ last.value.resetHourIn = ExpectedResetIn(store, HourKey(last.session))
          /\ last.value.resetMinuteIn > 0
          /\ last.value.resetHourIn > 0

\* The current time isQuietTime compares with the window bounds.
CurrentMinutes(q, now, midnightIs24) ==
  MinutesOf(FormatTime(now, EffectiveTimeZone(q.quietHoursTimezone), midnightIs24))

\* C27: whenever isQuietTime gets as far as comparing, the current local time
\* it compares is a number in 0..1439, the minutes since local midnight, also
\* in the hour that starts at local midnight (00:30 compares as 30).
C27_CurrentTimeInDay ==
  (qh.op = "isQuietTime" /\ ~QuietHoursOff(qh.q))
    => LET m == CurrentMinutes(qh.q, qh.now, qh.midnightIs24)
       IN  /\ ~m.nan
           /\ m.n \in 0..1439
           /\ m.n = LocalMinutes

\* C24: for each session, among the allowed checkAndRecord calls, any that
\* fall within less than 60 seconds of each other number at most
\* maxPerMinute, wherever the 60 seconds lie relative to the lifetime of the
\* minute counter.
C24_SlidingMinuteWindow ==
  \A s \in Sessions :
    LET allowed == obs[HourKey(s)]
    IN  \A i, j \in 1..Len(allowed) :
          (i <= j /\ allowed[j].at - allowed[i].at < MinuteWindow * MsPerSecond)
            => j - i + 1 <= prefs.maxPerMinute

\* C29: when the minute counter of a session expires less than an hour after
\* its hour counter was created, the hour counter stays with the same count
\* and its own time to live, shorter only by the time that passed; and a call
\* made with the minute count below its cap while the hour count has reached
\* maxPerHour is denied with exceededLimit 'hour' and changes nothing, in
\* whichever minute window it falls; the hour counter goes only by its own
\* expiry.
C29_WindowsExpireIndependently ==
  [][/\ \A s \in Sessions, d \in Durations :
          (/\ elapses' # elapses
           /\ store' = AfterElapse(store, d)
           /\ store[MinuteKey(s)].present
           /\ ~store'[MinuteKey(s)].present
           /\ store[HourKey(s)].present
           /\ age[HourKey(s)] + d < HourWindow * MsPerSecond)
            => /\ store'[HourKey(s)].present
               /\ store'[HourKey(s)].val = store[HourKey(s)].val
               /\ store'[HourKey(s)].pttl = store[HourKey(s)].pttl - d
     /\ \A c \in Callers : EvalStep(c) =>
          LET p == arg[c].prefs
              s == arg[c].session
          IN  (/\ Count(store, HourKey(s)) >= p.maxPerHour
               /\ Count(store, MinuteKey(s)) < p.maxPerMinute)
                => /\ ~last'.value.allowed
                   /\ last'.value.exceededLimit = "hour"
                   /\ store' = store
     /\ \A s \in Sessions :
          (store[HourKey(s)].present /\ ~store'[HourKey(s)].present)
            => \E d \in Durations :
                 /\ Expired(store[HourKey(s)], d)
                 /\ age[HourKey(s)] + d >= HourWindow * MsPerSecond]_vars

C29_Witness ==
  /\ Denied
  /\ last.value.exceededLimit = "hour"
  /\ last.prefs.maxPerHour >= 1
  /\ ~store[MinuteKey(last.session)].present
  /\ store[HourKey(last.session)].present
  /\ age[HourKey(last.session)] >= MinuteWindow * MsPerSecond

\* A call of isQuietTime, shouldSend or shouldSendEvent.
QuietHoursStep == qh' # qh

\* C23: a call of isQuietTime, shouldSend or shouldSendEvent made while
\* checkAndRecord, getStatus and reset calls are under way leaves every
\* counter, every call in flight and the last returned result as they are;
\* and what checkAndRecord and getStatus then do and return is what the store
\* alone determines, the same whether or not a quiet-hours call has run.
C23_QuietHoursTouchNothingShared ==
  [][/\ QuietHoursStep
          => /\ store' = store
             /\ pc' = pc
             /\ arg' = arg
             /\ last' = last
             /\ calls' = calls
     /\ \A c \in Callers : EvalStep(c) =>
          LET out == RateLimitScript(store, MinuteKey(arg[c].session),
                                     HourKey(arg[c].session),
                                     arg[c].prefs.maxPerMinute,
                                     arg[c].prefs.maxPerHour)
          IN  /\ store' = out.store
              /\ last'.value = CheckAndRecordResult(arg[c].prefs, out.reply)
              /\ qh' = qh
     /\ \A c \in Callers :
          (pc[c] = "status" /\ arg'[c] # arg[c])
            => /\ store' = store
               /\ qh' = qh
               /\ pc'[c] = "status"
                    => arg'[c].reads =
                         Append(arg[c].reads,
                                StatusCommand(store, arg[c].session,
                                              Len(arg[c].reads) + 1))
     /\ \A c \in Callers :
          (pc[c] = "del" /\ pc'[c] = "idle")
            => /\ store' = DEL(store, MinuteKey(arg[c].session), HourKey(arg[c].session))
               /\ qh' = qh]_vars

C23_Witness ==
  /\ qh.op = "shouldSend"
  /\ ~qh.result
  /\ qh.inFlight >= 1
  /\ \E c \in Callers :
       /\ pc[c] = "status"
       /\ Len(arg[c].reads) >= 1
       /\ store[MinuteKey(arg[c].session)].present

\* C34: in every reachable state the minute count of a session is at most
\* its hour count, an absent counter counting as 0.
C34_MinuteAtMostHour ==
  \A s \in Sessions : Count(store, MinuteKey(s)) <= Count(store, HourKey(s))

\* C34, amended: the minute count of a session is at most its hour count
\* whenever the hour counter exists and was created no later than the minute
\* counter.
C34_MinuteAtMostHourWhileHourOlder ==
  \A s \in Sessions :
    (/\ store[HourKey(s)].present
     /\ age[HourKey(s)] >= age[MinuteKey(s)])
      => Count(store, MinuteKey(s)) <= Count(store, HourKey(s))

C34_Witness ==
  \E s \in Sessions :
    /\ store[HourKey(s)].present
    /\ store[MinuteKey(s)].present
    /\ age[HourKey(s)] > age[MinuteKey(s)]
    /\ Count(store, MinuteKey(s)) = 1
    /\ Count(store, HourKey(s)) = 2

\* C35: with quiet hours enabled and start equal to end, isQuietTime returns
\* true exactly in the local minute equal to start, and false in every other
\* minute of the day.
C35_StartEqualsEnd ==
  (/\ qh.op = "isQuietTime"
   /\ QuietWindowGiven
   /\ ClockMinutes(qh.q.quietHoursStart) = ClockMinutes(qh.q.quietHoursEnd))
    => (qh.result <=> LocalMinutes = ClockMinutes(qh.q.quietHoursStart))

\* What a checkAndRecord call would return if its script ran on store st.
ResultOn(st, s, p) ==
  CheckAndRecordResult(p, RateLimitScript(st, MinuteKey(s), HourKey(s),
                                          p.maxPerMinute, p.maxPerHour).reply)

\* What getStatus returns when its four commands all run on store st.
StatusOn(st, s, p) ==
  StatusResult(p, [n \in 1..4 |-> StatusCommand(st, s, n)])

\* What C33 says of a status and of the result of the call that follows it.
Agree(status, res) ==
  /\ res.allowed <=> (status.remainingMinute > 0 /\ status.remainingHour > 0)
  /\ res.allowed => /\ res.remainingMinute = status.remainingMinute - 1
                    /\ res.remainingHour = status.remainingHour - 1

\* C33: when a checkAndRecord call for the session and prefs of the getStatus
\* that has just returned starts with nothing in between, the result its
\* script gives on the store as it is agrees with that status: it is allowed
\* exactly if the status reported remainingMinute > 0 and remainingHour > 0,
\* and then its remainingMinute and remainingHour are one less than reported;
\* and every result of checkAndRecord agrees in the same way with what
\* getStatus returns on the store the script ran on.
C33_StatusAndCheckAgree ==
  [][/\ \A c \in Callers :
          (/\ last.op = "getStatus"
           /\ pc[c] = "idle"
           /\ pc'[c] = "eval"
           /\ arg'[c].session = last.session
           /\ arg'[c].prefs = last.prefs)
            => Agree(last.value, ResultOn(store, last.session, last.prefs))
     /\ \A c \in Callers : EvalStep(c) =>
          Agree(StatusOn(store, arg[c].session, arg[c].prefs), last'.value)]_vars

C33_Witness ==
  /\ last.op = "getStatus"
  /\ last.value.remainingMinute = 1
  /\ last.value.remainingHour >= 1
  /\ store[MinuteKey(last.session)].present
  /\ calls < budget
  /\ ResultOn(store, last.session, last.prefs).allowed
  /\ ResultOn(store, last.session, last.prefs).remainingMinute = 0

\* The store of a run in which no time passes and nothing is reset, at the
\* instant when session s had k allowed calls.
StoreAt(s, k) ==
  [key \in Keys |->
     IF key[2] = s /\ k > 0
       THEN [present |-> TRUE, val |-> k, pttl |-> WindowOf(key) * MsPerSecond]
       ELSE Absent]

\* The status of session s that store st holds: what is left of each cap and
\* the time until each counter resets.
StatusOf(st, s, p) ==
  [remainingMinute |-> Max(0, p.maxPerMinute - Count(st, MinuteKey(s))),
   remainingHour |-> Max(0, p.maxPerHour - Count(st, HourKey(s))),
   resetMinuteIn |-> ExpectedResetIn(st, MinuteKey(s)),
   resetHourIn |-> ExpectedResetIn(st, HourKey(s))]

\* The instants between the invocation of the one getStatus call, made on
\* the empty store, and the present: one per count the session has had.
Instants32(s) == 0..Count(store, MinuteKey(s))

\* C32: the four values a getStatus call returns are those computed from the
\* store as it was at one single instant between its invocation and its
\* return.
C32_StatusIsSnapshot ==
  last.op = "getStatus"
    => \E k \in Instants32(last.session) :
         last.value = StatusOf(StoreAt(last.session, k), last.session, last.prefs)

\* C32, amended: each of the four values a getStatus call returns is the one
\* computed from the store as it was at some instant between the call's
\* invocation and its return, the instants following each other in the order
\* minute count, hour count, minute time to live, hour time to live; they
\* need not be one instant.
C32_StatusValuesAreEachCurrent ==
  last.op = "getStatus"
    => \E k1, k2, k3, k4 \in Instants32(last.session) :
         /\ k1 <= k2 /\ k2 <= k3 /\ k3 <= k4
         /\ LET at(k) == StatusOf(StoreAt(last.session, k), last.session, last.prefs)
            IN  /\ last.value.remainingMinute = at(k1).remainingMinute
                /\ last.value.remainingHour = at(k2).remainingHour
                /\ last.value.resetMinuteIn = at(k3).resetMinuteIn
                /\ last.value.resetHourIn = at(k4).resetHourIn

C32_Witness ==
  /\ last.op = "getStatus"
  /\ last.reads[1] = 0
  /\ last.reads[2] = 1
  /\ last.value.remainingMinute = last.prefs.maxPerMinute
  /\ last.value.remainingHour = last.prefs.maxPerHour - 1

\* In that run the store is, for every session, the store of one of its
\* instants.
StoreIsOfAnInstant ==
  \A s \in Sessions :
    \A key \in {MinuteKey(s), HourKey(s)} :
      store[key] = StoreAt(s, Count(store, MinuteKey(s)))[key]

AllowedFor(s) == Allowed /\ last.session = s

\* C31: with maxPerMinute >= 1 and maxPerHour >= 1, a session that keeps
\* calling while time keeps passing is allowed again and again, whatever
\* happened before; a minute counter never lives longer than 60 s from its
\* first increment, and a call served once it is gone is allowed unless the
\* hour count has reached maxPerHour.
C31_NoPermanentLockout ==
  /\ \A s \in LiveSessions : []<>AllowedFor(s)
  /\ [](\A s \in Sessions :
          store[MinuteKey(s)].present
            => /\ age[MinuteKey(s)] < MinuteWindow * MsPerSecond
               /\ store[MinuteKey(s)].pttl
                    = MinuteWindow * MsPerSecond - age[MinuteKey(s)])
  /\ [][\A c \in Callers : EvalStep(c) =>
          ((/\ ~store[MinuteKey(arg[c].session)].present
            /\ Count(store, HourKey(arg[c].session)) < arg[c].prefs.maxPerHour)
             => last'.value.allowed)]_vars

C31_Witness ==
  /\ Denied
  /\ last.value.exceededLimit = "hour"
  /\ ~store[MinuteKey(last.session)].present
  /\ age[HourKey(last.session)] >= MinuteWindow * MsPerSecond
  /\ store[HourKey(last.session)].val = 2

\* C37: getPushRateLimiter returns null as long as initPushRateLimiter has
\* not been called, and otherwise the instance the most recent
\* initPushRateLimiter made: the stored instance starts as null, what
\* getPushRateLimiter returns is the stored instance, only
\* initPushRateLimiter changes it, and each initPushRateLimiter stores and
\* returns a new instance in place of the previous one.
C37_InstanceIsTheLatestInit ==
  /\ rateLimiterInstance = NoInstance
  /\ [](last.op = "getPushRateLimiter" => last.value = rateLimiterInstance)
  /\ [][/\ rateLimiterInstance' # rateLimiterInstance
             => /\ last'.op = "initPushRateLimiter"
                /\ last'.value = rateLimiterInstance'
                /\ ~rateLimiterInstance'.null
                /\ IF rateLimiterInstance.null THEN TRUE
                   ELSE rateLimiterInstance'.id > rateLimiterInstance.id
        /\ (last'.op = "initPushRateLimiter" /\ last' # last)
             => /\ rateLimiterInstance' # rateLimiterInstance
                /\ last'.value = rateLimiterInstance']_vars

C37_Witness ==
  /\ last.op = "getPushRateLimiter"
  /\ IF last.value.null THEN FALSE
     ELSE last.value.id = 2 /\ last.value.redis = "redisB"
  /\ \E s \in Sessions : store[MinuteKey(s)].present

====
